---- MODULE Spec2Model ----
(***************************************************************************)
(* Model of pypit/arcomb.py: comb_frames, the frame combiner.              *)
(*                                                                         *)
(* A frame stack has shape (sz_x, sz_y, num_frames).  Every operation of   *)
(* comb_frames acts on each pixel (x, y) independently of the others, so   *)
(* the model follows a stack with sz_x = sz_y = 1: a stack is the sequence *)
(* of the num_frames observations of one pixel, and a 2D array is the one  *)
(* number at that pixel.                                                   *)
(*                                                                         *)
(* Numbers.  Observations are integers.  The statistics (mean, median)     *)
(* are rationals, kept as reduced pairs <<numerator, denominator>>.  The   *)
(* robust sigma 1.4826 * MAD is never stored: a threshold median +/- k *   *)
(* sigma is kept as the record of its parts and compared exactly (7413 /   *)
(* 5000 = 1.4826), without leaving 32-bit integers.                        *)
(*                                                                         *)
(* Arguments.  The stack frames_arr is bound when the call is made.  The   *)
(* arguments det, method and satpix and the entries of the dictionary      *)
(* `reject` are bound when the code first reads them (reject['lowhigh'] at *)
(* line 48, reject['replace'] at line 56, det at lines 68, 79 or 83,       *)
(* satpix at line 74, reject['cosmics'] at line 93, reject['level'] at     *)
(* line 133, method at line 146): every call the caller can make is one of *)
(* these sequences of reads, and a call that ends with an argument unread  *)
(* ends the same way for every value of that argument.                     *)
(*                                                                         *)
(* The module arcycomb (the masked-statistics primitives) and armsgs (the  *)
(* logger, whose error() ends the call) are not part of the sources at     *)
(* hand; they are modelled from the specification's section 4.1.           *)
(***************************************************************************)
EXTENDS Integers, Sequences, FiniteSets, TLC

(* ------------------------------ bounds -------------------------------- *)
\* largest observation of the input stacks (observations are 0..MaxVal)
MaxVal == 2
\* largest num_frames
MaxFrames == 3
\* largest low / high rejection count of reject['lowhigh']
MaxRej == 2
\* the sigma multiple of reject['level'], where one is given (0: none)
MaxLevel == 1
\* the sigma multiple of reject['cosmics'], where one is given (-1: none)
MaxCosmics == 1
\* number of detectors of the instrument described by spect
NumDet == 2
\* SpecStage: largest num_frames, and the sigma multiple of reject['level']
MaxStageFrames == 4
MaxStageLevel == 2
\* SpecMasked: largest num_frames of a stack that holds sentinel entries
MaxMaskedFrames == 4

(* ---------------------------- constants ------------------------------- *)
\* default of the argument maskvalue (line 13): 1 + 2**20
maskvalue == 1048577
\* 1.4826 = StdNum / StdDen (lines 96, 136)
StdNum == 7413
StdDen == 5000

Vals == 0..MaxVal
Stacks == UNION {[1..n -> Vals] : n \in 1..MaxFrames}
Methods == {"mean", "median", "weightmean", "bogus"}
SatPixModes == {"force", "reject", "nothing", "ignore"}
ReplaceRules == {"min", "max", "mean", "median", "weightmean", "maxnonsat", "bogus"}
LowHighs == (0..MaxRej) \X (0..MaxRej)
Levels == {0, MaxLevel} \X {0, MaxLevel}
CosmicsVals == {-1, MaxCosmics}
Dets == 1..NumDet
\* the argument frametype: a string (the default '<None>', 'None', a frame
\* type), or an object that is not a string (a number)
StageStacks == UNION {[1..n -> Vals] : n \in 2..MaxStageFrames}
StageLevels == {0, MaxStageLevel} \X {0, MaxStageLevel}
\* stacks of num_frames >= 2 whose entries are observations or the sentinel
MaskedStacks ==
    UNION {[1..n -> Vals \cup {maskvalue}] : n \in 2..MaxMaskedFrames}
FrameTypes == {[isstr |-> TRUE, text |-> "<None>"],
               [isstr |-> TRUE, text |-> "None"],
               [isstr |-> TRUE, text |-> "bias"],
               [isstr |-> FALSE, text |-> ""]}

(* --------------------------- rationals -------------------------------- *)
RECURSIVE GCD(_, _)
GCD(a, b) == IF b = 0 THEN a ELSE GCD(b, a % b)

Abs(x) == IF x < 0 THEN -x ELSE x

\* the reduced fraction n / d (d > 0)
Frac(n, d) ==
    LET g == GCD(Abs(n), d) IN
    IF n = 0 THEN <<0, 1>> ELSE <<n \div g, d \div g>>

\* v > c and v < c for an integer v and a fraction c; no product overflows
\* for |v| <= maskvalue and denominators <= 2
FGt(v, c) == v * c[2] > c[1]
FLt(v, c) == v * c[2] < c[1]

RECURSIVE Sum(_)
Sum(s) == IF s = <<>> THEN 0 ELSE Head(s) + Sum(Tail(s))

Sorted(s) == SortSeq(s, LAMBDA a, b : a < b)

(* ------------------- arcycomb: masked statistics ---------------------- *)
\* the observations of a pixel that are not the sentinel
Unmasked(s, mv) == SelectSeq(s, LAMBDA v : v # mv)

\* median of a non-empty sequence of integers
MedianOf(s) ==
    LET t == Sorted(s)
        n == Len(t)
    IN  IF n % 2 = 1 THEN Frac(t[(n + 1) \div 2], 1)
        ELSE Frac(t[n \div 2] + t[n \div 2 + 1], 2)

\* arcycomb.mean / arcycomb.median: plain statistics over the frame axis
mean(s) == Frac(Sum(s), Len(s))
median(s) == MedianOf(s)

\* arcycomb.masked_mean: mean of the non-sentinel observations; a pixel
\* whose observations are all the sentinel yields the sentinel
masked_mean(s, mv) ==
    LET u == Unmasked(s, mv) IN
    IF u = <<>> THEN <<mv, 1>> ELSE Frac(Sum(u), Len(u))

\* arcycomb.masked_median
masked_median(s, mv) ==
    LET u == Unmasked(s, mv) IN
    IF u = <<>> THEN <<mv, 1>> ELSE MedianOf(u)

\* arcycomb.masked_weightmean: no weights are passed, so the masked mean
masked_weightmean(s, mv) == masked_mean(s, mv)

\* arcycomb.minmax: per-pixel minimum (which = 0) or maximum (which = 1)
minmax(s, which) ==
    LET t == Sorted(s) IN
    IF which = 0 THEN Frac(t[1], 1) ELSE Frac(t[Len(t)], 1)

\* arcycomb.maxnonsat: largest observation strictly below the ceiling; what
\* it yields when no observation is below the ceiling is not specified:
\* `undef` stands for that value
maxnonsat(s, ceiling, undef) ==
    LET u == Sorted(SelectSeq(s, LAMBDA v : FLt(v, ceiling))) IN
    IF u = <<>> THEN Frac(undef, 1) ELSE Frac(u[Len(u)], 1)

\* arcycomb.masked_limitget(array, limit, 2): the pixels where some frame
\* exceeds the limit
masked_limitget(s, limit) == \E i \in 1..Len(s) : FGt(s[i], limit)

\* arcycomb.masked_limitset(array, limit, 2, maskvalue): a new stack with
\* the observations above the limit replaced by the sentinel
masked_limitset(s, limit, mv) ==
    [i \in 1..Len(s) |-> IF FGt(s[i], limit) THEN mv ELSE s[i]]

\* a > StdNum * b for integers a and b >= 0, without forming StdNum * b
GtStd(a, b) == a > 0 /\ b <= (a - 1) \div StdNum

\* A per-pixel limit  med2/2 + sign * k * 1.4826 * mad4/4  is the record
\* [med2, k, mad4, sign]; v lies beyond it (above for sign = 1, below for
\* sign = -1) iff  sign * (2v - med2) * 2 * StdDen > StdNum * k * mad4
Beyond(v, lim) ==
    GtStd(lim.sign * (2 * v - lim.med2) * 2 * StdDen, lim.k * lim.mad4)

\* arcycomb.masked_limitsetarr(array, limitarr, +-2, maskvalue): a new stack
\* with the observations above (+2) or below (-2) the per-pixel limit
\* replaced by the sentinel; an observation that is the sentinel stays it
masked_limitsetarr(s, lim, mv) ==
    [i \in 1..Len(s) |->
        IF s[i] = mv THEN mv
        ELSE IF Beyond(s[i], lim) THEN mv ELSE s[i]]

\* arcycomb.masked_replace: the fallback where the combined value is the
\* sentinel
masked_replace(c, fallback, mv) == IF c = <<mv, 1>> THEN fallback ELSE c

(* ------------------------------ state --------------------------------- *)
VARIABLES
    spect,        \* module global spect (line 9): detector parameters, or None
    caller_arr,   \* the array object the caller passed as frames_arr
    frames_none,  \* TRUE iff the caller passed frames_arr = None
    argv,         \* the arguments det, method, satpix read so far
    reject,       \* the entries of the argument reject read so far
    work,         \* local frames_arr while it names a 3D stack
    aliased,      \* local frames_arr names the array object the caller passed
    allrej_arr,   \* local allrej_arr (2D)
    setsat,       \* local setsat: the pixel has a frame above the ceiling
    comb,         \* local frames_arr once it names the 2D combined frame
    steps,        \* the numeric steps the current call has executed, in order
    pc,           \* position of the call
    ret,          \* outcome of the call: returned array or raised error
    calls         \* the invocations of two independent callers (SpecTwo)

vars == <<spect, caller_arr, frames_none, argv, reject, work, aliased,
          allrej_arr, setsat, comb, steps, pc, ret, calls>>

Zero == <<0, 1>>
NoRet == [status |-> "none", value |-> Zero, err |-> "none", line |-> 0]

\* the values an argument or dictionary entry can take at its first read:
\* the value read before, if any
Read(f, key, S) == IF key \in DOMAIN f THEN {f[key]} ELSE S
Has(f, key) == key \in DOMAIN f

\* parameters of detector d: saturation count and nonlinearity fraction
DetPar(d) == [saturation |-> 2 * d - 1, nonlinear |-> <<1, 2>>]

\* the values the module global spect (line 9) can hold
Instrument == [none |-> FALSE, det |-> [d \in 1..NumDet |-> DetPar(d)]]
NoSpect == [none |-> TRUE, det |-> <<>>]

\* np.shape(frames_arr)[2]
num_frames == Len(caller_arr)

\* spect['det'][det-1]['saturation'] * spect['det'][det-1]['nonlinear']
Ceiling(sp, d) ==
    <<sp.det[d].saturation * sp.det[d].nonlinear[1], sp.det[d].nonlinear[2]>>

(* ----------------------- comb_frames: its parts ------------------------ *)
\* lines 12-13: the defaults of the keyword arguments method and satpix
DefaultMethod == "weightmean"
DefaultSatpix == "ignore"

\* lines 31-32: the dictionary used when reject is None
DefaultReject ==
    [cosmics |-> -1, replace |-> "median", level |-> <<0, 0>>,
     lowhigh |-> <<0, 0>>]

\* lines 37, 44, 167 with every frametype refused by the format
FormatsNothing(ft) == FALSE

\* lines 37, 44, 167: '{0:s}'.format(frametype) gives a string for a
\* frametype that is a string and raises ValueError for a number
Formats(ft) == ft.isstr

\* line 36 with the test left out
NoFramesUnchecked(none) == FALSE

\* line 36: frames_arr is None
NoFrames(none) == none

\* line 39 with the comparison off by one
OnlyOneFrameOffByOne(n) == n = 0

\* line 39: the trivial case
OnlyOneFrame(n) == n = 1

\* lines 48-49: the test that raises "You cannot reject more frames ..."
RejectsTooMany(lh, n) == lh[1] > 0 /\ lh[2] > 0 /\ lh[1] + lh[2] >= n

\* lines 56-70: the replacement rules comb_frames knows
KnownRule(rule) ==
    rule \in {"min", "max", "mean", "median", "weightmean", "maxnonsat"}

\* lines 74-88 with the final else branch never taken
KnownSatpixAny(sp) == TRUE

\* lines 74-88: the saturation modes comb_frames knows
KnownSatpix(sp) == sp \in {"force", "reject", "nothing"}

\* lines 56-59 with the flags of minmax exchanged
AllRejMinMaxSwapped(rule, s, sp, d, undef) ==
    CASE rule = "min" -> minmax(s, 1)
      [] rule = "max" -> minmax(s, 0)
      [] rule = "mean" -> mean(s)
      [] rule = "median" -> median(s)
      [] rule = "weightmean" -> masked_weightmean(s, maskvalue)
      [] rule = "maxnonsat" -> maxnonsat(s, Ceiling(sp, d), undef)

\* lines 56-68 placed after line 83: the fallback taken from the stack
\* whose observations above the ceiling are already the sentinel
AllRejAfterSaturation(rule, s, sp, d, undef) ==
    LET m == masked_limitset(s, Ceiling(sp, d), maskvalue) IN
    CASE rule = "min" -> minmax(m, 0)
      [] rule = "max" -> minmax(m, 1)
      [] rule = "mean" -> mean(m)
      [] rule = "median" -> median(m)
      [] rule = "weightmean" -> masked_weightmean(m, maskvalue)
      [] rule = "maxnonsat" -> maxnonsat(m, Ceiling(sp, d), undef)

\* lines 56-68: the value used where every frame is rejected
AllRej(rule, s, sp, d, undef) ==
    CASE rule = "min" -> minmax(s, 0)
      [] rule = "max" -> minmax(s, 1)
      [] rule = "mean" -> mean(s)
      [] rule = "median" -> median(s)
      [] rule = "weightmean" -> masked_weightmean(s, maskvalue)
      [] rule = "maxnonsat" -> maxnonsat(s, Ceiling(sp, d), undef)

\* line 79: setsat, computed for satpix = 'force' only
SetSat(s, sp, spct, d) ==
    IF sp = "force" THEN masked_limitget(s, Ceiling(spct, d)) ELSE FALSE

\* line 83 with the result of masked_limitset dropped
SatRejectDropped(s, sp, spct, d) == s

\* lines 81-83: satpix = 'reject' rebinds frames_arr to the stack with the
\* observations above the ceiling masked; the other modes leave it alone
SatReject(s, sp, spct, d) ==
    IF sp = "reject" THEN masked_limitset(s, Ceiling(spct, d), maskvalue) ELSE s

\* line 83: frames_arr = arcycomb.masked_limitset(...) binds the local name
\* to the new stack masked_limitset returns; the other modes leave the
\* local name on the caller's array
Rebinds(sp) == sp = "reject"

\* twice a fraction whose denominator is 1 or 2, as an integer
Twice(f) == (f[1] * 2) \div f[2]

\* lines 95-96 and 135-136:
\*   medarr = masked_median(frames_arr, maskvalue)
\*   stdarr = 1.4826*masked_median(np.abs(frames_arr-medarr), maskvalue)
\* as med2 = 2 * medarr and mad4 = 4 * (stdarr / 1.4826).  The array of
\* absolute deviations is formed from every entry of the stack, and its
\* entries are masked where they equal maskvalue.
RobustStats(s, mv) ==
    LET med2 == Twice(masked_median(s, mv))
        dev2 == [i \in 1..Len(s) |-> Abs(2 * s[i] - med2)]
        mad2 == masked_median(dev2, 2 * mv)
    IN  [med2 |-> med2, mad4 |-> Twice(mad2)]

\* line 97 with the rejection of lines 137-138, on both sides of the median
CosmicsRejectTwoSided(s, c, mv) ==
    LET r == RobustStats(s, mv)
        lo == masked_limitsetarr(s,
                 [med2 |-> r.med2, k |-> c, mad4 |-> r.mad4, sign |-> -1], mv)
    IN  masked_limitsetarr(lo,
                 [med2 |-> r.med2, k |-> c, mad4 |-> r.mad4, sign |-> 1], mv)

\* line 97 with the flag -2 (reject below the limit) in place of 2
CosmicsRejectBelow(s, c, mv) ==
    LET r == RobustStats(s, mv) IN
    masked_limitsetarr(s, [med2 |-> r.med2, k |-> c, mad4 |-> r.mad4, sign |-> -1], mv)

\* line 97: masked_limitsetarr(frames_arr, medarr + cosmics*stdarr, 2, maskvalue)
CosmicsReject(s, c, mv) ==
    LET r == RobustStats(s, mv) IN
    masked_limitsetarr(s, [med2 |-> r.med2, k |-> c, mad4 |-> r.mad4, sign |-> 1], mv)

\* line 107 with the stack sorted in place (frames_arr.sort(axis=2))
np_sort_in_place(s) == [arr |-> Sorted(s), copy |-> FALSE]

\* line 107: np.sort(frames_arr, axis=2) returns a sorted copy of the stack
np_sort(s) == [arr |-> Sorted(s), copy |-> TRUE]

\* line 118: frames_arr[np.where(frames_arr == maskvalue)] *= -1
NegateMasked(s, mv) == [i \in 1..Len(s) |-> IF s[i] = mv THEN -mv ELSE s[i]]

\* lines 111, 121 with np.indices given one sequence: nothing raises
LowHighNeverRaises(lh) == FALSE

\* lines 105-124: with a count > 0 the stage reaches np.indices(sz_x, sz_y)
\* (lines 111, 121), which raises TypeError: the dimensions must be one
\* sequence, and sz_x is an int
LowHighRaises(lh) == lh[1] > 0 \/ lh[2] > 0

\* lines 135-138: both limits are formed from the same medarr and stdarr
DeviantReject(s, lv, mv) ==
    LET r == RobustStats(s, mv)
        lo == masked_limitsetarr(s,
                 [med2 |-> r.med2, k |-> lv[1], mad4 |-> r.mad4, sign |-> -1], mv)
    IN  masked_limitsetarr(lo,
                 [med2 |-> r.med2, k |-> lv[2], mad4 |-> r.mad4, sign |-> 1], mv)

\* lines 146-152: the methods comb_frames knows
KnownMethod(m) == m \in {"mean", "median", "weightmean"}

\* lines 146-151 with the plain statistics in place of the masked ones
CombineByUnmasked(m, s, mv) ==
    CASE m = "mean" -> mean(s)
      [] m = "median" -> median(s)
      [] m = "weightmean" -> mean(s)

\* lines 146-151
CombineBy(m, s, mv) ==
    CASE m = "mean" -> masked_mean(s, mv)
      [] m = "median" -> masked_median(s, mv)
      [] m = "weightmean" -> masked_weightmean(s, mv)

\* line 157 with the substitution left out
ReplaceMaskedSkipped(c, allrej) == c

\* line 157: frames_arr = arcycomb.masked_replace(frames_arr, allrej_arr,
\* maskvalue)
ReplaceMasked(c, allrej) == masked_replace(c, allrej, maskvalue)

\* line 164: spect['det'][det]['saturation'] (Python's index det is the
\* entry after the one of detector det)
ForcedIndex(d) == d + 1

\* lines 162-164: frames_arr[setsat] = spect['det'][det]['saturation']
ApplyForce(c, sat, spct, d) ==
    IF sat THEN Frac(spct.det[ForcedIndex(d)].saturation, 1) ELSE c

\* every observation of the stack is the sentinel
AllMasked(s, mv) == \A i \in 1..Len(s) : s[i] = mv

\* comb_frames as a function of its arguments (lines 12-170): the outcome of
\* the call comb_frames(s, d, method=m, satpix=sp, reject=rj) under the
\* detector parameters spct; und is the value maxnonsat yields where no
\* observation is below the ceiling.  masked: every observation of the
\* pixel was rejected when the frames were combined.
CombFrames(s, d, m, sp, rj, spct, und) ==
    LET Err == [status |-> "error", value |-> Zero, masked |-> FALSE]
        Ok(v, am) == [status |-> "ok", value |-> v, masked |-> am]
    IN
    IF OnlyOneFrame(Len(s)) THEN Ok(Frac(s[1], 1), FALSE)
    ELSE IF RejectsTooMany(rj.lowhigh, Len(s)) \/ spct.none THEN Err
    ELSE IF ~KnownRule(rj.replace) THEN Err
    ELSE IF ~KnownSatpix(sp) THEN Err
    ELSE
      LET allrej == AllRej(rj.replace, s, spct, d, und)
          sat == SetSat(s, sp, spct, d)
          w0 == SatReject(s, sp, spct, d)
          w1 == IF rj.cosmics > 0 THEN CosmicsReject(w0, rj.cosmics, maskvalue) ELSE w0
      IN
      IF LowHighRaises(rj.lowhigh) THEN Err
      ELSE
        LET w2 == IF rj.level[1] > 0 \/ rj.level[2] > 0
                  THEN DeviantReject(w1, rj.level, maskvalue) ELSE w1
        IN
        IF ~KnownMethod(m) THEN Err
        ELSE
          LET c1 == ReplaceMasked(CombineBy(m, w2, maskvalue), allrej) IN
          IF sp = "force"
          THEN IF ForcedIndex(d) \in DOMAIN spct.det
               THEN Ok(ApplyForce(c1, sat, spct, d), AllMasked(w2, maskvalue))
               ELSE Err
          ELSE Ok(c1, AllMasked(w2, maskvalue))

(* ------------------- two independent invocations ---------------------- *)
\* the two callers
Procs == {1, 2}

\* the calls the two callers make: comb_frames(stack, det, method=...,
\* satpix=..., reject=...)
TwoArgs ==
    {[stack |-> <<0, 2>>, det |-> 1, method |-> "mean", satpix |-> "force",
      rj |-> [lowhigh |-> <<0, 0>>, replace |-> "max", cosmics |-> -1,
              level |-> <<0, 0>>]],
     [stack |-> <<1, 1, 2>>, det |-> 2, method |-> "median", satpix |-> "reject",
      rj |-> [lowhigh |-> <<0, 0>>, replace |-> "median", cosmics |-> 1,
              level |-> <<1, 1>>]],
     [stack |-> <<2>>, det |-> 1, method |-> "mean", satpix |-> "nothing",
      rj |-> [lowhigh |-> <<0, 0>>, replace |-> "min", cosmics |-> -1,
              level |-> <<0, 0>>]],
     [stack |-> <<0, 1>>, det |-> 1, method |-> "weightmean", satpix |-> "nothing",
      rj |-> [lowhigh |-> <<0, 1>>, replace |-> "mean", cosmics |-> -1,
              level |-> <<0, 0>>]]}

NoArgs ==
    [stack |-> <<>>, det |-> 1, method |-> "mean", satpix |-> "nothing",
     rj |-> [lowhigh |-> <<0, 0>>, replace |-> "min", cosmics |-> -1,
             level |-> <<0, 0>>]]

NoOut == [status |-> "none", value |-> Zero]

\* an invocation: its arguments and its locals (frames_arr, allrej_arr,
\* setsat), its position and its outcome
IdleCall ==
    [pc |-> "idle", args |-> NoArgs, w |-> <<>>, allrej |-> Zero,
     sat |-> FALSE, out |-> NoOut]

\* lines 12-170 with the module global spect set to None by a call
spect_cleared(sp) == NoSpect

\* lines 12-170: the module global spect after a step of comb_frames; no
\* statement assigns spect or an entry of it
spect_after(sp) == sp

\* one stage of comb_frames (lines 35-170) on the invocation c, reading
\* the module global spect as it is when the stage runs
Advance(c, spct) ==
    LET a == c.args
        Err == [c EXCEPT !.pc = "error", !.w = <<>>, !.allrej = Zero,
                         !.sat = FALSE,
                         !.out = [status |-> "error", value |-> Zero]]
        Ok(v) == [c EXCEPT !.pc = "done", !.out = [status |-> "ok", value |-> v]]
    IN
    CASE c.pc = "check" ->
            IF OnlyOneFrame(Len(a.stack)) THEN Ok(Frac(c.w[1], 1))
            ELSE [c EXCEPT !.pc = "validate"]
      [] c.pc = "validate" ->
            IF RejectsTooMany(a.rj.lowhigh, Len(a.stack)) \/ spct.none THEN Err
            ELSE [c EXCEPT !.pc = "fallback"]
      [] c.pc = "fallback" ->
            IF ~KnownRule(a.rj.replace) THEN Err
            ELSE [c EXCEPT !.pc = "saturated",
                           !.allrej = AllRej(a.rj.replace, c.w, spct, a.det, 0)]
      [] c.pc = "saturated" ->
            IF ~KnownSatpix(a.satpix) THEN Err
            ELSE [c EXCEPT !.pc = "cosmics",
                           !.sat = SetSat(c.w, a.satpix, spct, a.det),
                           !.w = SatReject(c.w, a.satpix, spct, a.det)]
      [] c.pc = "cosmics" ->
            [c EXCEPT !.pc = "lowhigh",
                      !.w = IF a.rj.cosmics > 0
                            THEN CosmicsReject(c.w, a.rj.cosmics, maskvalue)
                            ELSE c.w]
      [] c.pc = "lowhigh" ->
            IF LowHighRaises(a.rj.lowhigh) THEN Err
            ELSE [c EXCEPT !.pc = "deviant"]
      [] c.pc = "deviant" ->
            [c EXCEPT !.pc = "combine",
                      !.w = IF a.rj.level[1] > 0 \/ a.rj.level[2] > 0
                            THEN DeviantReject(c.w, a.rj.level, maskvalue)
                            ELSE c.w]
      [] c.pc = "combine" ->
            IF ~KnownMethod(a.method) THEN Err
            ELSE LET c1 == ReplaceMasked(CombineBy(a.method, c.w, maskvalue),
                                         c.allrej)
                 IN  IF a.satpix = "force"
                     THEN IF ForcedIndex(a.det) \in DOMAIN spct.det
                          THEN Ok(ApplyForce(c1, c.sat, spct, a.det))
                          ELSE Err
                     ELSE Ok(c1)

(* ----------------------------- actions --------------------------------- *)
Init ==
    /\ spect \in {Instrument, NoSpect}
    /\ caller_arr = <<>>
    /\ frames_none = FALSE
    /\ argv = <<>>
    /\ reject = <<>>
    /\ work = <<>>
    /\ aliased = FALSE
    /\ allrej_arr = Zero
    /\ setsat = FALSE
    /\ comb = Zero
    /\ steps = <<>>
    /\ pc = "idle"
    /\ ret = NoRet
    /\ calls = [p \in Procs |-> IdleCall]

\* an exception leaves comb_frames: msgs.error (armsgs) or a Python error
Raise(kind, line) ==
    /\ pc' = "error"
    /\ ret' = [status |-> "error", value |-> Zero, err |-> kind, line |-> line]
    /\ work' = <<>>
    /\ aliased' = FALSE
    /\ allrej_arr' = Zero
    /\ setsat' = FALSE
    /\ comb' = Zero

\* the caller invokes comb_frames(frames_arr, det, ...)
Call ==
    /\ pc = "idle"
    /\ \/ /\ frames_none' = TRUE
          /\ caller_arr' = <<>>
       \/ /\ frames_none' = FALSE
          /\ caller_arr' \in Stacks
    /\ work' = caller_arr'
    /\ aliased' = ~frames_none'
    /\ pc' = "check"
    /\ UNCHANGED <<spect, calls, argv, reject, allrej_arr, setsat, comb, steps, ret>>

\* lines 33-44: no frames, or only one frame.  frametype is compared at
\* line 34 (a warning at most) and formatted into the messages of lines 37
\* and 44; it is kept in argv only where it ends the call, every other
\* step being the same for every frametype.  weight and weights are never
\* read.
CheckInput ==
    /\ pc = "check"
    /\ \E ft \in FrameTypes :
        IF NoFrames(frames_none)
        THEN /\ Raise(IF Formats(ft) THEN "msgs.error" ELSE "ValueError", 37)
             /\ UNCHANGED argv
        ELSE IF OnlyOneFrame(num_frames)
        THEN /\ pc' = "done"
             /\ ret' = [status |-> "ok", value |-> Frac(work[1], 1),
                        err |-> "none", line |-> 42]
             /\ UNCHANGED <<argv, work, aliased, allrej_arr, setsat, comb>>
        ELSE IF ~Formats(ft)
        THEN /\ Raise("ValueError", 44)
             /\ argv' = argv @@ ("frametype" :> ft)
        ELSE /\ pc' = "validate"
             /\ UNCHANGED <<argv, ret, work, aliased, allrej_arr, setsat, comb>>
    /\ UNCHANGED <<spect, calls, caller_arr, frames_none, reject, steps>>

\* lines 47-54: the lowhigh counts and the spectrograph information
Validate ==
    /\ pc = "validate"
    /\ \E lh \in LowHighs :
        /\ reject' = reject @@ ("lowhigh" :> lh)
        /\ IF RejectsTooMany(lh, num_frames)
           THEN Raise("msgs.error", 50)
           ELSE IF spect.none
           THEN Raise("msgs.error", 54)
           ELSE /\ pc' = "fallback"
                /\ UNCHANGED <<ret, work, aliased, allrej_arr, setsat, comb>>
    /\ UNCHANGED <<spect, calls, caller_arr, frames_none, argv, steps>>

\* lines 55-70 with an unknown rule taken as 'median'
FallbackUnchecked ==
    /\ pc = "fallback"
    /\ \E rule \in ReplaceRules :
        /\ reject' = reject @@ ("replace" :> rule)
        /\ allrej_arr' = AllRej(IF KnownRule(rule) /\ rule # "maxnonsat"
                                THEN rule ELSE "median", work, spect, 1, 0)
        /\ steps' = Append(steps, "fallback")
        /\ pc' = "saturated"
    /\ UNCHANGED <<spect, calls, caller_arr, frames_none, argv, ret, work,
                   aliased, setsat, comb>>

\* lines 55-70: the values to use where all frames are rejected
Fallback ==
    /\ pc = "fallback"
    /\ \E rule \in ReplaceRules :
        /\ reject' = reject @@ ("replace" :> rule)
        /\ CASE ~KnownRule(rule) ->
                  /\ Raise("msgs.error", 70)
                  /\ UNCHANGED <<argv, steps>>
             [] rule = "maxnonsat" ->
                  \E d \in Dets, undef \in Vals :
                      /\ argv' = argv @@ ("det" :> d)
                      /\ allrej_arr' = AllRej(rule, work, spect, d, undef)
                      /\ steps' = Append(steps, "fallback")
                      /\ pc' = "saturated"
                      /\ UNCHANGED <<ret, work, aliased, setsat, comb>>
             [] OTHER ->
                  /\ allrej_arr' = AllRej(rule, work, spect, 1, 0)
                  /\ steps' = Append(steps, "fallback")
                  /\ pc' = "saturated"
                  /\ UNCHANGED <<argv, ret, work, aliased, setsat, comb>>
    /\ UNCHANGED <<spect, calls, caller_arr, frames_none>>

\* lines 71-88: saturated pixels
Saturated ==
    /\ pc = "saturated"
    /\ \E sp \in SatPixModes, d \in Read(argv, "det", Dets) :
        CASE ~KnownSatpix(sp) ->
              /\ argv' = argv @@ ("satpix" :> sp)
              /\ Raise("msgs.error", 88)
              /\ UNCHANGED steps
         [] sp = "nothing" ->
              /\ argv' = argv @@ ("satpix" :> sp)
              /\ pc' = "cosmics"
              /\ UNCHANGED <<ret, work, aliased, setsat, allrej_arr, comb, steps>>
         [] OTHER ->
              /\ argv' = argv @@ ("satpix" :> sp) @@ ("det" :> d)
              /\ setsat' = SetSat(work, sp, spect, d)
              /\ work' = SatReject(work, sp, spect, d)
              /\ aliased' = (aliased /\ ~Rebinds(sp))
              /\ steps' = Append(steps, "saturated")
              /\ pc' = "cosmics"
              /\ UNCHANGED <<ret, allrej_arr, comb>>
    /\ UNCHANGED <<spect, calls, caller_arr, frames_none, reject>>

\* lines 91-101: cosmic rays
Cosmics ==
    /\ pc = "cosmics"
    /\ \E c \in CosmicsVals :
        /\ reject' = reject @@ ("cosmics" :> c)
        /\ IF c > 0
           THEN /\ work' = CosmicsReject(work, c, maskvalue)
                /\ aliased' = FALSE
                /\ steps' = Append(steps, "cosmics")
           ELSE UNCHANGED <<work, aliased, steps>>
    /\ pc' = "lowhigh"
    /\ UNCHANGED <<spect, calls, caller_arr, frames_none, argv, ret, allrej_arr, setsat, comb>>

\* lines 102-130: low and high pixel rejection.  With a count > 0 the
\* stack is sorted (line 107); with low = 0 the sentinels of the sorted
\* stack are negated in place (line 118); then np.indices raises (line 111
\* or 121).  in_place is what the array frames_arr names holds by then:
\* the caller's array holds it too if frames_arr still names that array.
LowHigh ==
    /\ pc = "lowhigh"
    /\ IF LowHighRaises(reject["lowhigh"])
       THEN LET srt == np_sort(work)
                in_place == IF reject["lowhigh"][1] > 0 THEN srt.arr
                            ELSE NegateMasked(srt.arr, maskvalue)
            IN  /\ Raise("TypeError", IF reject["lowhigh"][1] > 0 THEN 111 ELSE 121)
                /\ steps' = Append(steps, "lowhigh")
                /\ caller_arr' = IF aliased /\ ~srt.copy THEN in_place
                                 ELSE caller_arr
       ELSE /\ pc' = "deviant"
            /\ UNCHANGED <<caller_arr, ret, work, aliased, allrej_arr, setsat,
                           comb, steps>>
    /\ UNCHANGED <<spect, calls, frames_none, argv, reject>>

\* lines 131-142: deviant pixels, reject['level'] being one of LV
DeviantWith(LV) ==
    /\ pc = "deviant"
    /\ \E lv \in LV :
        /\ reject' = reject @@ ("level" :> lv)
        /\ IF lv[1] > 0 \/ lv[2] > 0
           THEN /\ work' = DeviantReject(work, lv, maskvalue)
                /\ aliased' = FALSE
                /\ steps' = Append(steps, "deviant")
           ELSE UNCHANGED <<work, aliased, steps>>
    /\ pc' = "combine"
    /\ UNCHANGED <<spect, calls, caller_arr, frames_none, argv, ret, allrej_arr, setsat, comb>>

Deviant == DeviantWith(Levels)

\* lines 143-170 for a known method m: combine the arrays, replace the
\* completely masked pixels, apply the saturated pixels, return the 2D array
Finish(m) ==
    LET c0 == CombineBy(m, work, maskvalue)
        c1 == ReplaceMasked(c0, allrej_arr)
    IN
    IF argv["satpix"] = "force"
    THEN /\ steps' = steps \o <<"combine", "replace", "force">>
         /\ IF ForcedIndex(argv["det"]) \in DOMAIN spect.det
            THEN /\ comb' = ApplyForce(c1, setsat, spect, argv["det"])
                 /\ pc' = "done"
                 /\ ret' = [status |-> "ok", value |-> comb',
                            err |-> "none", line |-> 170]
                 /\ UNCHANGED <<work, aliased, allrej_arr, setsat>>
            ELSE Raise("IndexError", 164)
    ELSE /\ steps' = steps \o <<"combine", "replace">>
         /\ comb' = c1
         /\ pc' = "done"
         /\ ret' = [status |-> "ok", value |-> c1, err |-> "none", line |-> 170]
         /\ UNCHANGED <<work, aliased, allrej_arr, setsat>>

\* lines 143-170 with an unknown method combined as 'weightmean'
CombineUnchecked ==
    /\ pc = "combine"
    /\ \E m \in Methods :
        /\ argv' = argv @@ ("method" :> m)
        /\ Finish(IF KnownMethod(m) THEN m ELSE "weightmean")
    /\ UNCHANGED <<spect, calls, caller_arr, frames_none, reject>>

\* lines 143-170: combine the arrays, replace the completely masked pixels,
\* apply the saturated pixels and return
Combine ==
    /\ pc = "combine"
    /\ \E m \in Methods :
        /\ argv' = argv @@ ("method" :> m)
        /\ IF KnownMethod(m)
           THEN Finish(m)
           ELSE /\ Raise("msgs.error", 153)
                /\ UNCHANGED steps
    /\ UNCHANGED <<spect, calls, caller_arr, frames_none, reject>>

\* the caller has the outcome; the locals of the call are gone
Return ==
    /\ pc \in {"done", "error"}
    /\ caller_arr' = <<>>
    /\ frames_none' = FALSE
    /\ argv' = <<>>
    /\ reject' = <<>>
    /\ work' = <<>>
    /\ aliased' = FALSE
    /\ allrej_arr' = Zero
    /\ setsat' = FALSE
    /\ comb' = Zero
    /\ steps' = <<>>
    /\ pc' = "idle"
    /\ ret' = NoRet
    /\ UNCHANGED <<spect, calls>>

Next ==
    \/ Call
    \/ CheckInput
    \/ Validate
    \/ Fallback
    \/ Saturated
    \/ Cosmics
    \/ LowHigh
    \/ Deviant
    \/ Combine
    \/ Return

Spec == Init /\ [][Next]_vars

(* ---------- the deviant stage on stacks with rejected entries ---------- *)
\* a call comb_frames(s, d, satpix='reject', reject={'lowhigh': [0, 0],
\* 'replace': 'median', 'cosmics': -1, ...}) on num_frames >= 2 as it
\* stands at line 131: the fallback is computed, the observations above
\* the ceiling are the sentinel, no cosmic-ray or low/high rejection ran
InitStage ==
    /\ spect = Instrument
    /\ frames_none = FALSE
    /\ \E s \in StageStacks, d \in Dets :
        /\ caller_arr = s
        /\ argv = ("det" :> d) @@ ("satpix" :> "reject")
        /\ work = SatReject(s, "reject", spect, d)
        /\ allrej_arr = AllRej("median", s, spect, d, 0)
    /\ reject = ("lowhigh" :> <<0, 0>>) @@ ("replace" :> "median")
                    @@ ("cosmics" :> -1)
    /\ aliased = FALSE
    /\ setsat = FALSE
    /\ comb = Zero
    /\ steps = <<"fallback", "saturated">>
    /\ pc = "deviant"
    /\ ret = NoRet
    /\ calls = [p \in Procs |-> IdleCall]

DeviantStage == DeviantWith(StageLevels)

NextStage == DeviantStage \/ Combine \/ Return

SpecStage == InitStage /\ [][NextStage]_vars

(* ------------- calls on stacks that hold sentinel entries -------------- *)
\* a call comb_frames(s, d, satpix='nothing', reject={'lowhigh': [0, 0],
\* 'replace': rule, ...}) on num_frames >= 2 as it stands at line 92, the
\* stack s holding observations and sentinel entries: the fallback is
\* computed (det is read for 'maxnonsat' only), frames_arr names the
\* caller's array
InitMasked ==
    /\ spect = Instrument
    /\ frames_none = FALSE
    /\ \E s \in MaskedStacks, d \in Dets, rule \in {r \in ReplaceRules : KnownRule(r)} :
        /\ caller_arr = s
        /\ work = s
        /\ argv = IF rule = "maxnonsat"
                  THEN ("det" :> d) @@ ("satpix" :> "nothing")
                  ELSE ("satpix" :> "nothing")
        /\ reject = ("lowhigh" :> <<0, 0>>) @@ ("replace" :> rule)
        /\ allrej_arr = AllRej(rule, s, spect, d, 0)
    /\ aliased = TRUE
    /\ setsat = FALSE
    /\ comb = Zero
    /\ steps = <<"fallback">>
    /\ pc = "cosmics"
    /\ ret = NoRet
    /\ calls = [p \in Procs |-> IdleCall]

NextMasked == Cosmics \/ LowHigh \/ Deviant \/ Combine \/ Return

SpecMasked == InitMasked /\ [][NextMasked]_vars

(* ------------- two callers invoking comb_frames concurrently ----------- *)
\* the variables of the single invocation followed by Spec
callvars == <<caller_arr, frames_none, argv, reject, work, aliased,
              allrej_arr, setsat, comb, steps, pc, ret>>

\* caller p invokes comb_frames on a stack of its own
TwoCall(p) ==
    /\ calls[p].pc = "idle"
    /\ \E a \in TwoArgs :
        calls' = [calls EXCEPT ![p] =
                    [IdleCall EXCEPT !.pc = "check", !.args = a, !.w = a.stack]]
    /\ UNCHANGED <<spect, callvars>>

\* the invocation of caller p runs its next stage
TwoStage(p) ==
    /\ calls[p].pc \notin {"idle", "done", "error"}
    /\ calls' = [calls EXCEPT ![p] = Advance(calls[p], spect)]
    /\ spect' = spect_after(spect)
    /\ UNCHANGED callvars

\* caller p has the outcome of its invocation
TwoReturn(p) ==
    /\ calls[p].pc \in {"done", "error"}
    /\ calls' = [calls EXCEPT ![p] = IdleCall]
    /\ UNCHANGED <<spect, callvars>>

NextTwo == \E p \in Procs : TwoCall(p) \/ TwoStage(p) \/ TwoReturn(p)

SpecTwo == Init /\ [][NextTwo]_vars

(* ------------------------------ claims --------------------------------- *)
Finished == pc \in {"done", "error"}
Returned == pc = "done" /\ ret.status = "ok"
ManyFrames == ~frames_none /\ num_frames >= 2

\* C1: a call on a stack with num_frames = 1 goes from the input check
\* straight to its return, and returns the single input frame with its
\* pixel value unchanged; it has then read neither method nor satpix nor
\* any entry of reject, so the result is the same whatever their values.
C1_SingleFrameReturned ==
    (~frames_none /\ num_frames = 1) =>
        /\ pc \in {"check", "done"}
        /\ pc = "done" =>
              /\ ret.status = "ok"
              /\ ret.value = <<caller_arr[1], 1>>
              /\ DOMAIN argv = {}
              /\ DOMAIN reject = {}

C1_Witness ==
    /\ pc = "done"
    /\ ~frames_none /\ num_frames = 1
    /\ ret.status = "ok"
    /\ ret.value = <<MaxVal, 1>>

\* C2: a call on a stack with num_frames >= 2 whose lowhigh counts satisfy
\* low + high >= num_frames never returns a frame: it is still before the
\* end of the low/high stage, or it has failed with an error.
C2_TooManyRejectedFails ==
    (ManyFrames /\ Has(reject, "lowhigh")
        /\ reject["lowhigh"][1] + reject["lowhigh"][2] >= num_frames) =>
        /\ pc \in {"fallback", "saturated", "cosmics", "lowhigh", "error"}
        /\ ret.status # "ok"
        /\ pc = "error" => ret.status = "error" /\ ret.value = Zero

\* a policy with low = 0 and high = num_frames has failed
C2_Witness ==
    /\ pc = "error"
    /\ ManyFrames /\ Has(reject, "lowhigh")
    /\ reject["lowhigh"][1] = 0
    /\ reject["lowhigh"][2] >= num_frames
    /\ ret.status = "error"

(* statistics of a stack that holds no sentinel, as the claims state them *)
PlainStat(m, s) == IF m = "median" THEN MedianOf(s) ELSE Frac(Sum(s), Len(s))

\* the observations left when the low smallest and the high largest go
Trimmed(s, lh) == SubSeq(Sorted(s), lh[1] + 1, Len(s) - lh[2])

\* v > median(s) + c * 1.4826 * MAD(s), MAD the median of |s[i] - median(s)|
ExceedsCosmic(v, s, c) ==
    LET med2 == Twice(MedianOf(s))
        dev2 == [i \in 1..Len(s) |-> Abs(2 * s[i] - med2)]
        mad4 == Twice(MedianOf(dev2))
    IN  (2 * v - med2) * 2 * StdDen > StdNum * c * mad4

\* satpix = 'reject' has masked nothing: no observation is above the ceiling
NoSatRejection ==
    \/ argv["satpix"] # "reject"
    \/ \A i \in 1..Len(caller_arr) :
          ~FGt(caller_arr[i], Ceiling(spect, argv["det"]))

\* C3: a call on num_frames >= 2 with a valid lowhigh policy (low + high <
\* num_frames, a count > 0) and no other rejection ends by returning the
\* selected statistic over the observations that are left once the `low`
\* smallest and the `high` largest of the pixel are removed.
C3_LowHighTrims ==
    (/\ Finished /\ ManyFrames
     /\ Has(reject, "cosmics") /\ reject["cosmics"] <= 0
     /\ argv["satpix"] = "nothing"
     /\ reject["lowhigh"][1] + reject["lowhigh"][2] < num_frames
     /\ (reject["lowhigh"][1] > 0 \/ reject["lowhigh"][2] > 0)
     /\ (Has(reject, "level") => reject["level"] = <<0, 0>>)
     /\ (Has(argv, "method") => KnownMethod(argv["method"])))
    => /\ Returned
       /\ ret.value = PlainStat(argv["method"], Trimmed(caller_arr, reject["lowhigh"]))

Range(s) == {s[i] : i \in 1..Len(s)}
MinOf(S) == CHOOSE x \in S : \A y \in S : x <= y
MaxOf(S) == CHOOSE x \in S : \A y \in S : x >= y

\* v is the value the replacement rule gives for the pixel whose
\* observations are s (maxnonsat: the largest one below the detector's
\* ceiling, when there is one)
RuleGives(rule, s, v) ==
    CASE rule = "min" -> v = <<MinOf(Range(s)), 1>>
      [] rule = "max" -> v = <<MaxOf(Range(s)), 1>>
      [] rule = "median" -> v = MedianOf(s)
      [] rule = "maxnonsat" ->
            LET below == {x \in Range(s) : FLt(x, Ceiling(spect, argv["det"]))}
            IN  below # {} => v = <<MaxOf(below), 1>>
      [] OTHER -> v = Frac(Sum(s), Len(s))

\* C5: a call on num_frames >= 2 with satpix other than 'force' that
\* returns, every observation of the pixel being rejected when the frames
\* were combined, returns the value the configured replacement rule gives
\* for the stack the caller passed.
C5_FullyRejectedGetsFallback ==
    (Returned /\ ManyFrames /\ argv["satpix"] # "force"
        /\ AllMasked(work, maskvalue))
    => RuleGives(reject["replace"], caller_arr, ret.value)

\* both frames saturated and rejected; the rule 'min' decides
C5_Witness ==
    /\ Returned /\ ManyFrames
    /\ argv["satpix"] = "reject"
    /\ AllMasked(work, maskvalue)
    /\ reject["replace"] = "min"
    /\ MinOf(Range(caller_arr)) # MaxOf(Range(caller_arr))
    /\ ret.value = <<MinOf(Range(caller_arr)), 1>>

\* some frame of the stack the caller passed exceeds the ceiling of det
SomeSaturated ==
    \E i \in 1..Len(caller_arr) :
        FGt(caller_arr[i], Ceiling(spect, argv["det"]))

\* C6: a call on num_frames >= 2 with satpix = 'force' that has combined
\* its frames returns detector det's saturation value where some frame
\* exceeds the ceiling, and the combined, fallback-substituted value where
\* none does.
C6_ForceWritesSaturation ==
    (/\ Finished /\ ManyFrames
     /\ Has(argv, "method") /\ KnownMethod(argv["method"])
     /\ argv["satpix"] = "force")
    => /\ Returned
       /\ ret.value =
            IF SomeSaturated
            THEN <<spect.det[argv["det"]].saturation, 1>>
            ELSE masked_replace(CombineBy(argv["method"], work, maskvalue),
                                allrej_arr, maskvalue)

\* s with every observation above the ceiling moved to the smallest
\* magnitude above the ceiling: two stacks that differ only in the
\* magnitudes of their above-ceiling observations have the same SatCanon
SatCanon(s, ceiling) ==
    [i \in 1..Len(s) |->
        IF FGt(s[i], ceiling)
        THEN MinOf({x \in Vals : FGt(x, ceiling)}) ELSE s[i]]

\* C7: with satpix = 'reject' and num_frames >= 2, when the saturation
\* stage has run every observation above the ceiling is the sentinel and
\* the others are unchanged; and a call that returns with an observation
\* of the pixel left unrejected returns the same value as the call with
\* the same arguments on the stack SatCanon of its own, hence the same
\* value as on every stack that differs only in the magnitudes of the
\* above-ceiling observations.
C7_SaturatedMagnitudeIgnored ==
    (ManyFrames /\ Has(argv, "satpix") /\ argv["satpix"] = "reject")
    => /\ pc = "cosmics" =>
            \A i \in 1..num_frames :
                work[i] = IF FGt(caller_arr[i], Ceiling(spect, argv["det"]))
                          THEN maskvalue ELSE caller_arr[i]
       /\ (Returned /\ ~AllMasked(work, maskvalue)) =>
            LET s2 == SatCanon(caller_arr, Ceiling(spect, argv["det"]))
                o == CombFrames(s2, argv["det"], argv["method"],
                                argv["satpix"], reject, spect, 0)
            IN  o.status = "ok" /\ ~o.masked /\ o.value = ret.value

\* one frame saturated and rejected, the others combined
C7_Witness ==
    /\ Returned /\ ManyFrames
    /\ argv["satpix"] = "reject"
    /\ SomeSaturated
    /\ ~AllMasked(work, maskvalue)
    /\ SatCanon(caller_arr, Ceiling(spect, argv["det"])) # caller_arr
    /\ ret.value # PlainStat(argv["method"], caller_arr)

\* C8: a call on num_frames >= 2 frames that all hold the same value v
\* below the saturation ceiling, with a known method and a valid policy
\* (low + high < num_frames), returns v.
C8_ConstantStackReturned ==
    (/\ Finished /\ ManyFrames
     /\ \A i \in 1..num_frames : caller_arr[i] = caller_arr[1]
     /\ Has(argv, "satpix") /\ argv["satpix"] \in {"reject", "nothing"}
     /\ \E d \in Read(argv, "det", Dets) : FLt(caller_arr[1], Ceiling(spect, d))
     /\ reject["lowhigh"][1] + reject["lowhigh"][2] < num_frames
     /\ (Has(argv, "method") => KnownMethod(argv["method"])))
    => /\ Returned
       /\ ret.value = <<caller_arr[1], 1>>

\* C9 as stated: no call on a non-null stack (num_frames >= 1) returns an
\* array unless its method is one of 'mean', 'median', 'weightmean'.
C9_UnknownMethodFails ==
    (~frames_none /\ num_frames >= 1 /\ Returned)
    => Has(argv, "method") /\ KnownMethod(argv["method"])

\* C9, amended: a call on a stack with num_frames >= 2 returns an array
\* only if its method is one of 'mean', 'median', 'weightmean'; with any
\* other method it fails with an error and returns nothing.
C9_UnknownMethodFailsManyFrames ==
    /\ (ManyFrames /\ Returned)
          => Has(argv, "method") /\ KnownMethod(argv["method"])
    /\ (ManyFrames /\ Has(argv, "method") /\ ~KnownMethod(argv["method"]))
          => pc = "error" /\ ret.status = "error" /\ ret.value = Zero

C9_Witness ==
    /\ pc = "error" /\ ManyFrames
    /\ Has(argv, "method") /\ ~KnownMethod(argv["method"])
    /\ ret.status = "error" /\ ret.line = 153

\* C10 as stated: no call on a non-null stack (num_frames >= 1) returns an
\* array unless its satpix is one of 'force', 'reject', 'nothing'.
C10_UnknownSatpixFails ==
    (~frames_none /\ num_frames >= 1 /\ Returned)
    => Has(argv, "satpix") /\ KnownSatpix(argv["satpix"])

\* C10, amended: a call on a stack with num_frames >= 2 returns an array
\* only if its satpix is one of 'force', 'reject', 'nothing'; with any
\* other value it fails with an error and returns nothing.
C10_UnknownSatpixFailsManyFrames ==
    /\ (ManyFrames /\ Returned)
          => Has(argv, "satpix") /\ argv["satpix"] \in {"force", "reject", "nothing"}
    /\ (ManyFrames /\ Has(argv, "satpix")
            /\ argv["satpix"] \notin {"force", "reject", "nothing"})
          => pc = "error" /\ ret.status = "error" /\ ret.value = Zero

C10_Witness ==
    /\ pc = "error" /\ ManyFrames
    /\ Has(argv, "satpix") /\ argv["satpix"] = "ignore"
    /\ ret.status = "error" /\ ret.line = 88

\* C11: a call with frames_arr = None fails at line 37, before the shape of
\* the stack is read (line 38) and before any numeric step, and returns no
\* array: it is at the input check or it has raised the error of line 37.
C11_NoFramesFails ==
    frames_none =>
        /\ pc \in {"check", "error"}
        /\ steps = <<>>
        /\ DOMAIN argv = {} /\ DOMAIN reject = {}
        /\ ret.status # "ok"
        /\ pc = "error" =>
              /\ ret.status = "error" /\ ret.value = Zero
              /\ ret.line = 37

C11_Witness ==
    /\ frames_none
    /\ pc = "error"
    /\ ret.status = "error" /\ ret.line = 37
    /\ steps = <<>>

\* the call has failed on a configuration error: invalid lowhigh counts
\* (line 50), unknown replacement rule (line 70), unknown satpix (line 88)
\* or unknown method (line 153)
ConfigFailure ==
    /\ pc = "error"
    /\ ret.err = "msgs.error"
    /\ ret.line \in {50, 70, 88, 153}

\* C12: a call that fails on an unknown method, an unknown satpix mode, an
\* unknown replacement rule or invalid lowhigh counts has executed no
\* numeric step (fallback, saturation, cosmic-ray, low/high, deviant,
\* combination) when the failure is raised.
C12_ConfigFailsBeforeNumericWork ==
    ConfigFailure => steps = <<>>

\* the combined value is the sentinel, or its negation
IsSentinel(v) == v = <<maskvalue, 1>> \/ v = <<-maskvalue, 1>>

\* C13: in a call on num_frames >= 2 whose input holds no sentinel, a pixel
\* whose observations are all rejected when the frames are combined does
\* not make the call fail: with a known method the call returns, and the
\* value returned is the fallback; no returned value is the sentinel or
\* its negation.
C13_FullRejectionResolved ==
    /\ [](Returned /\ ManyFrames => ~IsSentinel(ret.value))
    /\ [][(/\ pc = "combine" /\ ManyFrames
           /\ AllMasked(work, maskvalue)
           /\ KnownMethod(argv'["method"]))
          => (/\ pc' = "done" /\ ret'.status = "ok"
              /\ ~IsSentinel(ret'.value)
              /\ ret'.value = allrej_arr)]_vars

\* both frames rejected as saturated, and a value returned
C13_Witness ==
    /\ Returned /\ ManyFrames
    /\ AllMasked(work, maskvalue)
    /\ CombineBy(argv["method"], work, maskvalue) = <<maskvalue, 1>>
    /\ ret.value = allrej_arr
    /\ ~IsSentinel(ret.value)

\* C14: during a call on num_frames >= 2 no step, successful or failing,
\* changes a value of the array the caller passed: the sentinel writes,
\* the sort and the sign changes go to arrays the call has made.
C14_CallerStackUntouched ==
    [][(ManyFrames /\ pc # "idle" /\ pc' # "idle")
          => caller_arr' = caller_arr]_vars

\* the low/high stage has sorted a stack that was not in order, with no
\* stage before it making a copy, and the caller's array is as it was
C14_Witness ==
    /\ pc = "error" /\ ret.line = 121
    /\ ManyFrames
    /\ argv["satpix"] = "nothing" /\ reject["cosmics"] <= 0
    /\ caller_arr # Sorted(caller_arr)

\* the call has failed where frametype is formatted into a message
FailedOnFrameType == pc = "error" /\ ManyFrames /\ ret.line \in {44, 167}

\* the value a returning call returns is the value of CombFrames, a
\* function of the stack, det, method, satpix, reject and spect alone (of
\* det = 1, say, where the call has not read det; where every observation
\* is rejected and the rule is 'maxnonsat', the value is what maxnonsat
\* gave)
ResultOfOtherArguments ==
    (Returned /\ ManyFrames) =>
        \A d \in Read(argv, "det", {1}) :
            LET o == CombFrames(caller_arr, d, argv["method"],
                                argv["satpix"], reject, spect, 0)
            IN  /\ o.status = "ok"
                /\ \/ o.value = ret.value
                   \/ /\ reject["replace"] = "maxnonsat"
                      /\ o.masked /\ ret.value = allrej_arr

Alone(c, spct) ==
    LET o == CombFrames(c.args.stack, c.args.det, c.args.method,
                        c.args.satpix, c.args.rj, spct, 0)
    IN  [status |-> o.status, value |-> o.value]

\* C16 (SpecTwo): two invocations on stacks of their own, their stages
\* interleaved in any order, each end with the outcome the invocation has
\* when run alone, and no step writes the shared detector parameters.
C16_CallsIndependent ==
    /\ [](\A p \in Procs :
            calls[p].pc \in {"done", "error"} =>
                calls[p].out = Alone(calls[p], spect))
    /\ [][spect' = spect]_vars

\* caller 1 has its frame while the invocation of caller 2, on another
\* stack, is between two of its stages
C16_Witness ==
    /\ calls[1].pc = "done" /\ calls[1].out.status = "ok"
    /\ calls[1].args.satpix = "force"
    /\ calls[2].pc = "deviant"
    /\ calls[2].args.stack # calls[1].args.stack
    /\ calls[2].w # calls[2].args.stack

\* four times the median of |v - median| over the observations of s that
\* are not the sentinel, the median being theirs too
UnmaskedMad4(s, mv) ==
    LET u == Unmasked(s, mv)
        med2 == Twice(MedianOf(u))
        dev2 == [i \in 1..Len(u) |-> Abs(2 * u[i] - med2)]
    IN  Twice(MedianOf(dev2))

\* the stage about to run computes a robust sigma (line 96 or 136) on a
\* stack that has an observation left
SigmaTaken ==
    /\ ~AllMasked(work, maskvalue)
    /\ \/ pc = "cosmics" /\ reject'["cosmics"] > 0
       \/ pc = "deviant" /\ (reject'["level"][1] > 0 \/ reject'["level"][2] > 0)

\* C17: the robust sigma the cosmic-ray stage and the deviant stage use is
\* 1.4826 times the median of |value - masked median| over the
\* observations that are not the sentinel.
C17_SigmaOverUnmasked ==
    [][SigmaTaken =>
          RobustStats(work, maskvalue).mad4 = UnmaskedMad4(work, maskvalue)]_vars

\* v lies below median - l * sigma or above median + h * sigma, median and
\* sigma = 1.4826 * MAD being those of the observations of s that are not
\* the sentinel
OutsideLevels(v, s, lv, mv) ==
    LET med2 == Twice(MedianOf(Unmasked(s, mv)))
        mad4 == UnmaskedMad4(s, mv)
    IN  \/ (med2 - 2 * v) * 2 * StdDen > StdNum * lv[1] * mad4
        \/ (2 * v - med2) * 2 * StdDen > StdNum * lv[2] * mad4

\* the working stack the claim has the deviant stage leave
ClaimedDeviant(s, lv, mv) ==
    IF (lv[1] <= 0 /\ lv[2] <= 0) \/ AllMasked(s, mv) THEN s
    ELSE [i \in 1..Len(s) |->
            IF s[i] # mv /\ OutsideLevels(s[i], s, lv, mv) THEN mv ELSE s[i]]

\* C18 (SpecStage): the deviant stage sets to the sentinel exactly the
\* unrejected observations below median - l * robust sigma or above median
\* + h * robust sigma of the working stack it is given, and changes
\* nothing when l <= 0 and h <= 0.
C18_DeviantRejectsOutsideLevels ==
    [][pc = "deviant" =>
          work' = ClaimedDeviant(work, reject'["level"], maskvalue)]_vars

\* the number of entries of s that equal v
CountOf(s, v) == Cardinality({i \in 1..Len(s) : s[i] = v})

\* t is s with k more of its entries set to the sentinel mv, in some order
\* of the frames: the entries that were the sentinel are the sentinel, none
\* is its negation, and the others keep their values
MasksMore(s, t, k, mv) ==
    /\ Len(t) = Len(s)
    /\ CountOf(t, -mv) = 0
    /\ CountOf(t, mv) = CountOf(s, mv) + k
    /\ \A v \in Vals : CountOf(t, v) <= CountOf(s, v)

\* C19: the low/high stage of a call with a valid policy (low + high <
\* num_frames) hands on a stack in which the entries that were the
\* sentinel and the newly rejected ones are +maskvalue and the others are
\* unchanged; and the rejection stages never take a sentinel off.
C19_SentinelKept ==
    [][/\ (pc = "lowhigh" /\ ManyFrames
            /\ reject["lowhigh"][1] + reject["lowhigh"][2] < num_frames)
          => (/\ pc' = "deviant"
              /\ \E k \in 0..(reject["lowhigh"][1] + reject["lowhigh"][2]) :
                    MasksMore(work, work', k, maskvalue))
       /\ (pc \in {"cosmics", "deviant"} /\ pc' # "error")
          => \A i \in 1..Len(work) : work[i] = maskvalue => work'[i] = maskvalue]_vars

\* the numeric steps in the order of the claim
StageOrder ==
    <<"fallback", "saturated", "cosmics", "lowhigh", "deviant", "combine",
      "replace", "force">>

\* the place of a step in StageOrder
PosOf(step) ==
    CASE step = "fallback" -> 1
      [] step = "saturated" -> 2
      [] step = "cosmics" -> 3
      [] step = "lowhigh" -> 4
      [] step = "deviant" -> 5
      [] step = "combine" -> 6
      [] step = "replace" -> 7
      [] step = "force" -> 8

\* each step of s comes later in StageOrder than the step before it
InStageOrder(s) == \A i \in 1..(Len(s) - 1) : PosOf(s[i]) < PosOf(s[i + 1])

\* C20: the steps a call has executed are in the order fallback,
\* saturation handling, cosmic-ray, low/high, deviant, combination,
\* substitution, force; the fallback is the first of them and is, when it
\* is computed and still when the frames are combined, the value the
\* replacement rule gives for the stack as the caller passed it;
\* a call that returns has ended with combination and substitution, and
\* with satpix = 'force' with the force overwrite after them, which puts a
\* detector's saturation value where a frame exceeds the ceiling whatever
\* stood there.
C20_StageOrder ==
    /\ \A k \in 1..Len(StageOrder) : PosOf(StageOrder[k]) = k
    /\ InStageOrder(steps)
    /\ (ManyFrames /\ pc \in {"saturated", "cosmics", "lowhigh", "deviant",
                               "combine", "done"})
        => steps # <<>> /\ steps[1] = "fallback"
    /\ (ManyFrames /\ pc \in {"saturated", "combine"})
        => RuleGives(reject["replace"], caller_arr, allrej_arr)
    /\ (Returned /\ ManyFrames)
        => LET n == Len(steps) IN
           IF argv["satpix"] = "force"
           THEN /\ SubSeq(steps, n - 2, n) = <<"combine", "replace", "force">>
                /\ setsat => \E d \in DOMAIN spect.det :
                                ret.value = <<spect.det[d].saturation, 1>>
           ELSE SubSeq(steps, n - 1, n) = <<"combine", "replace">>

\* every stage that can run has run, in order, and the force overwrite has
\* replaced the combined value
C20_Witness ==
    /\ Returned /\ ManyFrames
    /\ steps = <<"fallback", "saturated", "cosmics", "deviant", "combine",
                 "replace", "force">>
    /\ setsat
    /\ ret.value # ReplaceMasked(CombineBy(argv["method"], work, maskvalue),
                                 allrej_arr)

\* the statistic of method m over the entries of s that are not the
\* sentinel; the sentinel where every entry is the sentinel
MaskedStat(m, s) ==
    LET u == SelectSeq(s, LAMBDA v : v # maskvalue) IN
    IF Len(u) = 0 THEN <<maskvalue, 1>> ELSE PlainStat(m, u)

\* cosmic-ray, low/high and deviant rejection and the handling of
\* saturated pixels are all disabled, as far as the call has read them
StagesDisabled ==
    /\ Has(argv, "satpix") /\ argv["satpix"] = "nothing"
    /\ reject["lowhigh"] = <<0, 0>>
    /\ Has(reject, "cosmics") => reject["cosmics"] <= 0
    /\ Has(reject, "level") => reject["level"] = <<0, 0>>

\* C21 (SpecMasked): with cosmic-ray, low/high and deviant rejection
\* disabled and satpix = 'nothing', a call on num_frames >= 2 that has
\* passed its input checks keeps the working stack equal to the stack the
\* caller passed, and with a known method returns the masked statistic of
\* the method over that stack, or the fallback where that statistic is
\* the sentinel.
C21_DisabledStagesPlainStatistic ==
    (ManyFrames /\ StagesDisabled) =>
        /\ pc \in {"cosmics", "lowhigh", "deviant", "combine"} => work = caller_arr
        /\ (Finished /\ Has(argv, "method") /\ KnownMethod(argv["method"])) =>
              /\ Returned
              /\ ret.value =
                    IF MaskedStat(argv["method"], caller_arr) = <<maskvalue, 1>>
                    THEN allrej_arr
                    ELSE MaskedStat(argv["method"], caller_arr)

\* a stack with a sentinel entry combined over its other entries
C21_Witness ==
    /\ Returned /\ ManyFrames /\ StagesDisabled
    /\ Has(reject, "level")
    /\ \E i \in 1..num_frames : caller_arr[i] = maskvalue
    /\ \E i \in 1..num_frames : caller_arr[i] # maskvalue
    /\ ret.value = MaskedStat(argv["method"], caller_arr)
    /\ ret.value # PlainStat(argv["method"], caller_arr)

\* C22: a call on num_frames >= 2 whose reject['replace'] is none of min,
\* max, mean, median, weightmean, maxnonsat returns no frame: once the rule
\* is read the call has failed with the error of line 70, having executed
\* no numeric step and read neither satpix nor a rejection threshold,
\* whatever the observations of the stack.
C22_UnknownRuleFails ==
    /\ (ManyFrames /\ Returned) => KnownRule(reject["replace"])
    /\ (ManyFrames /\ Has(reject, "replace") /\ ~KnownRule(reject["replace"])) =>
          /\ pc = "error"
          /\ ret.status = "error" /\ ret.value = Zero
          /\ ret.err = "msgs.error" /\ ret.line = 70
          /\ steps = <<>>
          /\ ~Has(argv, "satpix")
          /\ ~Has(reject, "cosmics") /\ ~Has(reject, "level")

\* an unknown rule has ended a call on frames that no stage would reject
C22_Witness ==
    /\ pc = "error" /\ ManyFrames
    /\ Has(reject, "replace") /\ reject["replace"] = "bogus"
    /\ reject["lowhigh"] = <<0, 0>>
    /\ \A i \in 1..num_frames : caller_arr[i] = 0
    /\ ret.line = 70 /\ steps = <<>>

\* the call has read an argument that makes it compare with the
\* detector's saturation ceiling: satpix 'force' or 'reject', or the
\* replacement rule 'maxnonsat'
UsesSaturation ==
    \/ Has(argv, "satpix") /\ argv["satpix"] \in {"force", "reject"}
    \/ Has(reject, "replace") /\ reject["replace"] = "maxnonsat"

\* C23: a call on num_frames >= 2 fails for missing detector parameters
\* only when it uses them: a call that has failed for want of spectrograph
\* information has satpix 'force' or 'reject' or the rule 'maxnonsat', and
\* with spect None a call with valid counts, a known rule other than
\* maxnonsat, satpix 'nothing' and a known method returns a frame.
C23_ParametersOnlyWhenUsed ==
    /\ (pc = "error" /\ ManyFrames /\ ret.line = 54) => UsesSaturation
    /\ (ManyFrames /\ spect.none /\ Finished
            /\ Has(reject, "lowhigh") /\ reject["lowhigh"] = <<0, 0>>)
          => CombFrames(caller_arr, 1, "mean", "nothing",
                        [lowhigh |-> <<0, 0>>, replace |-> "median",
                         cosmics |-> -1, level |-> <<0, 0>>],
                        spect, 0).status = "ok"

\* C24: a call on num_frames >= 2 with satpix = 'force' and a known method
\* takes the ceiling and the saturation value from the record of the one
\* detector det: setsat marks the pixel iff a frame exceeds the ceiling of
\* detector det, the call returns for every detector of the instrument,
\* the last one included, and where setsat marks the pixel the value
\* returned is the saturation value of detector det.
C24_ForceUsesSameDetector ==
    (ManyFrames /\ Has(argv, "satpix") /\ argv["satpix"] = "force") =>
        /\ pc \in {"cosmics", "lowhigh", "deviant", "combine"} =>
              (setsat <=> \E i \in 1..num_frames :
                  FGt(caller_arr[i],
                      <<spect.det[argv["det"]].saturation
                            * spect.det[argv["det"]].nonlinear[1],
                        spect.det[argv["det"]].nonlinear[2]>>))
        /\ (Finished /\ Has(argv, "method") /\ KnownMethod(argv["method"])) =>
              /\ Returned
              /\ SomeSaturated =>
                    ret.value = <<spect.det[argv["det"]].saturation, 1>>

\* v is at or below the median of the entries of s that are not the
\* sentinel
AtOrBelowMedian(v, s) ==
    2 * v <= Twice(MedianOf(SelectSeq(s, LAMBDA x : x # maskvalue)))

\* C25 (SpecMasked): the cosmic-ray stage, run with a threshold c > 0 on
\* a working stack with or without sentinel entries, leaves every
\* observation at or below the masked median as it is, changes no entry
\* other than into the sentinel, and leaves an unrejected observation in
\* every pixel that had one.
C25_CosmicsRejectsFromAbove ==
    [][(pc = "cosmics" /\ reject'["cosmics"] > 0) =>
          /\ Len(work') = Len(work)
          /\ \A i \in 1..Len(work) :
                /\ work'[i] \in {work[i], maskvalue}
                /\ (work[i] # maskvalue /\ AtOrBelowMedian(work[i], work))
                      => work'[i] = work[i]
          /\ ~AllMasked(work, maskvalue) => ~AllMasked(work', maskvalue)]_vars

\* the cosmic-ray stage has rejected an observation of a stack that held
\* a sentinel entry already, and has left one
C25_Witness ==
    /\ pc = "lowhigh"
    /\ reject["cosmics"] > 0
    /\ \E i \in 1..num_frames : caller_arr[i] = maskvalue
    /\ \E i \in 1..num_frames : caller_arr[i] # maskvalue /\ work[i] = maskvalue
    /\ \E i \in 1..num_frames : work[i] # maskvalue

\* every argument the call has read so far has its default value: the
\* call is comb_frames(frames_arr, det)
AllDefaults ==
    /\ ~Has(argv, "frametype")
    /\ Has(argv, "method") => argv["method"] = DefaultMethod
    /\ Has(argv, "satpix") => argv["satpix"] = DefaultSatpix
    /\ \A k \in DOMAIN reject : reject[k] = DefaultReject[k]

\* C26: a call comb_frames(frames_arr, det) on num_frames >= 2, every
\* other argument left at its default and the spectrograph information
\* present, does not fail: when it ends it has returned a frame.
C26_DefaultCallReturns ==
    (ManyFrames /\ ~spect.none /\ AllDefaults /\ Finished) => Returned

====
